---- MODULE Spec2Model ----
(***************************************************************************)
(* esi-cosim-runner.py: the driver of one cosimulation test.               *)
(*                                                                         *)
(* Spec follows one invocation from the point where __main__ holds a       *)
(* constructed CosimTestRunner (src line 361): compile(), then run() with  *)
(* its try/finally, readLogs() and the verdict.  The simulation process,   *)
(* the test process and the operator at the server-only prompt are the     *)
(* environment; they act between the statements of run().                  *)
(* SpecMain follows __main__ from its entry with a command line up to      *)
(* that point: the parsing of the arguments, the test directory and the    *)
(* constructor.                                                            *)
(*                                                                         *)
(* Encoding of Python values:                                              *)
(*   None / an object      <<>> / <<v>>      (rc, testProc, result)        *)
(*   a file                "absent", or its content                        *)
(*   a line of cosim.cfg   NoMatch when re.match("port: (\d+)") fails,     *)
(*                         else the integer of group 1                     *)
(***************************************************************************)
EXTENDS Integers, Sequences, FiniteSets, TLC

\* ---------------------------------------------------------------- bounds
\* cosim.cfg holds at most MaxCfgLines lines.
MaxCfgLines == 2
\* Port numbers written to cosim.cfg range over 0..MaxPort; the simulation
\* listens on one of 1..MaxPort.
MaxPort == 1
\* Process return codes range over -MaxRc..MaxRc (negative: killed by a signal).
MaxRc == 2
\* A command line holds at most MaxArgs arguments after the program name.
MaxArgs == 3

\* ------------------------------------------------------ program constants
\* "if checkCount > 200" of the wait for cosim.cfg.
CfgCheckLimit == 200
\* "if checkCount > 200" of the wait for the RPC port.
PortCheckLimit == 200

NoMatch == -1
Lines == {NoMatch} \cup (0..MaxPort)
RetCodes == (-MaxRc)..MaxRc

VARIABLES
  argv,         \* sys.argv
  args,         \* <<>>, or <<the namespace parse_args returned>>
  testDirExists,\* os.path.exists(testDir)
  cwd,          \* the working directory: "start" or "testdir"
  exec,         \* self.exec
  server_only,  \* self.server_only
  interactive,  \* self.interactive
  pc,           \* position of the control thread
  rc,           \* __main__'s rc = runner.compile()
  result,       \* <<v>> once __main__ returned v
  exc,          \* the exception in flight ("None" if none)
  simProc,      \* run()'s simProc: "None" or "Popen"
  testProc,     \* run()'s testProc: <<>> or <<returncode>>
  checkCount,   \* run()'s checkCount; it is not read after a loop has ended,
                \* and is kept at 0 outside the two loops that count
  port,         \* run()'s port
  err,          \* run()'s err (readLogs' foundErr)
  passed,       \* run()'s passed
  sim,          \* the simulation process: "none", "running", "zombie"
                \* (exited, not waited for), "reaped", "killed" (SIGKILL
                \* sent, not yet dead)
  listen,       \* the port the simulation accepts connections on, 0 if none
  cfgExists,    \* os.path.exists("cosim.cfg")
  cfgLines,     \* the lines of cosim.cfg
  cfgStale,     \* cosim.cfg exists and is the file an earlier run left
  simOutLog,    \* sim_stdout.log: "absent" or "present"
  simErrLog,    \* sim_stderr.log: "absent", "empty" or "text"
  testOutLog,   \* test_stdout.log: "absent" or "present"
  testErrLog,   \* test_stderr.log: "absent", "empty" or "text"
  openSinks,    \* the log files run() holds open for writing
  events        \* what has happened so far in this invocation

vars == <<argv, args, testDirExists, cwd, exec, server_only, interactive, pc, rc, result, exc, simProc,
          testProc, checkCount, port, err, passed, sim, listen, cfgExists,
          cfgLines, cfgStale, simOutLog, simErrLog, testOutLog, testErrLog, openSinks,
          events>>

cmdline == <<argv, args, testDirExists, cwd>>
flags == <<cmdline, exec, server_only, interactive>>
main == <<rc, result>>
locals == <<simProc, testProc, checkCount, port, err, passed>>
simState == <<sim, listen>>
cfgFile == <<cfgExists, cfgLines, cfgStale>>
simLogs == <<simOutLog, simErrLog>>
testLogs == <<testOutLog, testErrLog>>

SimSinks == {"sim_stdout", "sim_stderr"}
TestSinks == {"test_stdout", "test_stderr"}

\* ---------------------------------------------------------------- helpers

\* A driver that takes only positive return codes for a failure.
CompileFailed_M(r) == r > 0

\* __main__: "if rc != 0: return rc".
CompileFailed(r) == r # 0

\* A scan that keeps the first matching line instead of the last.
RECURSIVE ParsePort_M(_, _)
ParsePort_M(lines, p) ==
  IF lines = <<>> THEN p
  ELSE IF Head(lines) # NoMatch THEN Head(lines) ELSE ParsePort_M(Tail(lines), p)

\* run(): the inner loop of lines 188-191 over portFile.readlines(); every
\* matching line overwrites port, so the last match wins.
RECURSIVE ParsePort(_, _)
ParsePort(lines, p) ==
  IF lines = <<>> THEN p
  ELSE ParsePort(Tail(lines), IF Head(lines) # NoMatch THEN Head(lines) ELSE p)

\* isPortOpen(port): connect_ex(('127.0.0.1', port)) == 0.
isPortOpen(p) == listen # 0 /\ listen = p

\* simProc.poll() is not None: the child has exited (poll() reaps it).
Exited == sim # "running"

\* A finally block that never signals the simulation.
MustSignal_M(sp) == FALSE

\* run(): "if simProc:" of the finally block.
MustSignal(sp) == sp # "None"

\* A readLogs() that sets foundErr for the test's stderr only.
FoundErr_M(simErr, testErr) == testErr = "text"

\* readLogs(): foundErr is set when either stderr log is not "".
FoundErr(simErr, testErr) == simErr = "text" \/ testErr = "text"

\* run(): "passed = testProc.returncode == 0 and not err", False without a
\* test process.
\* A verdict that ignores the exit code of the test process.
Passed_M(tp, e) == IF tp # <<>> THEN ~e ELSE FALSE

Passed(tp, e) == IF tp # <<>> THEN tp[1] = 0 /\ ~e ELSE FALSE

\* An exception raised inside the try block: control goes to the finally block.
Raise(e) == exc' = e /\ pc' = "finally"

\* ------------------------------------------------------------------- Init
\* The state after construction, in a working directory that is fresh or was
\* used by an earlier run.
\* ---------------------------------------------------------- command line

\* The option strings of lines 309-335 that take no value, and the arguments
\* of a command line: an option or a word.
Options == {"-i", "--exec", "--server-only", "--no-aux-files"}
Tokens == Options \cup {"src"}
TokenSeqs == UNION {[1..n -> Tokens] : n \in 0..MaxArgs}

\* Index of the first argument that is not an option, 0 if there is none.
FirstPos(toks) ==
  IF \A i \in 1..Len(toks) : toks[i] \in Options THEN 0
  ELSE CHOOSE i \in 1..Len(toks) :
         toks[i] \notin Options /\ \A j \in 1..(i - 1) : toks[j] \in Options

\* argparser.parse_args(args[1:]), line 349: the options before the first
\* word set their flags, the word is "source", and all that follows it goes
\* to addlArgs (nargs=REMAINDER).  <<>>: no source was named, parse_args
\* reports the error and exits.
ParseArgs(toks) ==
  LET k == FirstPos(toks)
      given(o) == \E j \in 1..(k - 1) : toks[j] = o
  IN IF k = 0 THEN <<>>
     ELSE <<[source |-> toks[k],
             interactive |-> given("-i"),
             exec |-> given("--exec"),
             server_only |-> given("--server-only"),
             no_aux_files |-> given("--no-aux-files"),
             addlArgs |-> SubSeq(toks, k + 1, Len(toks))]>>

\* Line 52: the path of the cosimulation DPI library this build was
\* configured with, and os.path.exists of it: the empty path names no file.
CosimLibPath == ""
LibExists == FALSE

\* A constructor without the check of the DPI library.
CtorRaises_M == FALSE

\* Line 52: if "" == "" or not os.path.exists("").
CtorRaises == CosimLibPath = "" \/ ~LibExists

Init ==
  /\ exec \in BOOLEAN
  /\ server_only \in BOOLEAN
  /\ interactive \in BOOLEAN
  /\ argv = <<"prog">> \o (IF interactive THEN <<"-i">> ELSE <<>>)
                       \o (IF exec THEN <<"--exec">> ELSE <<>>)
                       \o (IF server_only THEN <<"--server-only">> ELSE <<>>)
                       \o <<"src">>
  /\ args = ParseArgs(Tail(argv))
  /\ testDirExists = TRUE
  /\ cwd = "testdir"
  /\ pc = "compile"
  /\ rc = <<>>
  /\ result = <<>>
  /\ exc = "None"
  /\ simProc = "None"
  /\ testProc = <<>>
  /\ checkCount = 0
  /\ port = -1
  /\ err = FALSE
  /\ passed = FALSE
  /\ sim = "none"
  /\ listen = 0
  /\ cfgExists \in BOOLEAN
  /\ cfgLines \in (IF cfgExists THEN {<<>>, <<MaxPort>>} ELSE {<<>>})
  /\ cfgStale = cfgExists
  /\ simOutLog \in {"absent", "present"}
  /\ simErrLog \in (IF simOutLog = "absent" THEN {"absent"} ELSE {"empty", "text"})
  /\ testOutLog \in {"absent", "present"}
  /\ testErrLog \in (IF testOutLog = "absent" THEN {"absent"} ELSE {"empty", "text"})
  /\ openSinks = {}
  /\ events = {}

\* --------------------------------------------------------------- __main__

\* __main__ is entered with a command line; no runner exists yet (its fields
\* read FALSE) and the test directory, if it exists, holds no file.
InitMain ==
  /\ argv \in {<<"prog">> \o toks : toks \in TokenSeqs}
  /\ args = <<>>
  /\ testDirExists \in BOOLEAN
  /\ cwd = "start"
  /\ exec = FALSE
  /\ server_only = FALSE
  /\ interactive = FALSE
  /\ pc = "main"
  /\ rc = <<>>
  /\ result = <<>>
  /\ exc = "None"
  /\ simProc = "None"
  /\ testProc = <<>>
  /\ checkCount = 0
  /\ port = -1
  /\ err = FALSE
  /\ passed = FALSE
  /\ sim = "none"
  /\ listen = 0
  /\ cfgExists = FALSE
  /\ cfgLines = <<>>
  /\ cfgStale = FALSE
  /\ simOutLog = "absent"
  /\ simErrLog = "absent"
  /\ testOutLog = "absent"
  /\ testErrLog = "absent"
  /\ openSinks = {}
  /\ events = {}

\* Lines 346-348: "if len(args) <= 1: argparser.print_help(); return".
\* __main__ returns None, which sys.exit turns into exit status 0.
PrintHelp ==
  /\ pc = "main"
  /\ Len(argv) <= 1
  /\ pc' = "exit"
  /\ result' = <<0>>
  /\ UNCHANGED <<flags, rc, exc, locals, simState, cfgFile, simLogs, testLogs,
                 openSinks, events>>

\* Line 349: args = argparser.parse_args(args[1:]); without a source
\* parse_args raises SystemExit.
ParseCmdLine ==
  /\ pc = "main"
  /\ Len(argv) > 1
  /\ args' = ParseArgs(Tail(argv))
  /\ IF args' = <<>>
       THEN exc' = "SystemExit" /\ pc' = "raised"
       ELSE exc' = exc /\ pc' = "mkdir"
  /\ UNCHANGED <<argv, testDirExists, cwd, exec, server_only, interactive, main,
                 locals, simState, cfgFile, simLogs, testLogs, openSinks, events>>

\* Lines 352-356: create the test directory if it is missing (os.mkdir may
\* fail) and change into it.
MkTestDir ==
  /\ pc = "mkdir"
  /\ \E ok \in BOOLEAN :
       IF testDirExists \/ ok
         THEN /\ testDirExists' = TRUE
              /\ cwd' = "testdir"
              /\ pc' = "construct"
              /\ exc' = exc
         ELSE /\ exc' = "OSError"
              /\ pc' = "raised"
              /\ UNCHANGED <<testDirExists, cwd>>
  /\ UNCHANGED <<argv, args, exec, server_only, interactive, main, locals, simState,
                 cfgFile, simLogs, testLogs, openSinks, events>>

\* Lines 358-360 and __init__: the fields are assigned (lines 37-48), then
\* line 52 decides; past it, line 63 opens the test file unless exec or
\* server_only is set, and the constructed runner is compiled next.
Construct ==
  /\ pc = "construct"
  /\ exec' = args[1].exec
  /\ server_only' = args[1].server_only
  /\ interactive' = args[1].interactive
  /\ IF CtorRaises
       THEN exc' = "Exception" /\ pc' = "raised"
       ELSE \E readable \in BOOLEAN :
              IF ~exec' /\ ~server_only' /\ ~readable
                THEN exc' = "FileNotFoundError" /\ pc' = "raised"
                ELSE exc' = exc /\ pc' = "compile"
  /\ UNCHANGED <<cmdline, main, locals, simState, cfgFile, simLogs, testLogs,
                 openSinks, events>>

\* rc = runner.compile(); if rc != 0: return rc
Compile ==
  /\ pc = "compile"
  /\ \E r \in RetCodes :
       /\ rc' = <<r>>
       /\ IF CompileFailed(r)
            THEN pc' = "exit" /\ result' = <<r>>
            ELSE pc' = "open_logs" /\ result' = result
  /\ events' = events \cup {"compile"}
  /\ UNCHANGED <<flags, exc, locals, simState, cfgFile, simLogs, testLogs, openSinks>>

\* ------------------------------------------------------------------ run()

\* Lines 142-152: open the log files.  "sim_logs", "test_logs": this run has
\* created or truncated the two simulation logs, the two test logs.
OpenLogs ==
  /\ pc = "open_logs"
  /\ simOutLog' = "present"
  /\ simErrLog' = "empty"
  /\ IF interactive
       THEN UNCHANGED testLogs /\ openSinks' = SimSinks
       ELSE testOutLog' = "present" /\ testErrLog' = "empty"
            /\ openSinks' = SimSinks \cup TestSinks
  /\ events' = events \cup {"run", "sim_logs"}
                 \cup (IF interactive THEN {} ELSE {"test_logs"})
  /\ pc' = "erase_cfg"
  /\ UNCHANGED <<flags, main, exc, locals, simState, cfgFile>>

\* A run that leaves an existing cosim.cfg in place.
ExistsAfterErase_M(existed) == existed

\* Lines 157-158, "if os.path.exists(portFileName): os.remove(portFileName)":
\* whether cosim.cfg exists afterwards.
ExistsAfterErase(existed) == FALSE

\* Lines 156-158: erase the config file if it exists.
EraseCfg ==
  /\ pc = "erase_cfg"
  /\ cfgExists' = ExistsAfterErase(cfgExists)
  /\ cfgLines' = IF cfgExists' THEN cfgLines ELSE <<>>
  /\ cfgStale' = (cfgExists' /\ cfgStale)
  /\ pc' = "launch"
  /\ UNCHANGED <<flags, main, exc, locals, simState, simLogs, testLogs, openSinks, events>>

\* Lines 161-178: subprocess.Popen starts the simulation, or raises OSError.
Launch ==
  /\ pc = "launch"
  /\ \E started \in BOOLEAN :
       IF started
         THEN /\ simProc' = "Popen"
              /\ sim' = "running"
              /\ openSinks' = openSinks \ SimSinks
              /\ checkCount' = 0
              /\ events' = events \cup {"launch"}
              /\ pc' = "wait_cfg"
              /\ exc' = exc
         ELSE /\ Raise("OSError")
              /\ UNCHANGED <<simProc, sim, openSinks, checkCount, events>>
  /\ UNCHANGED <<flags, main, testProc, port, err, passed, listen, cfgFile, simLogs, testLogs>>

\* Lines 179-185: wait for cosim.cfg while the simulation is alive.  One step
\* evaluates the loop condition and, if it holds, runs the body once.
WaitCfg ==
  /\ pc = "wait_cfg"
  /\ IF cfgExists
       THEN /\ pc' = "read_cfg" /\ port' = -1 /\ checkCount' = 0
            /\ events' = events \cup {"poll"}
            /\ UNCHANGED <<exc, sim>>
       ELSE IF Exited
         THEN /\ sim' = "reaped"
              /\ events' = events \cup {"poll", "died_before_cfg"}
              /\ pc' = "read_cfg" /\ port' = -1 /\ checkCount' = 0
              /\ exc' = exc
         ELSE /\ IF checkCount + 1 > CfgCheckLimit
                   THEN Raise("CfgTimeout") /\ checkCount' = 0
                   ELSE pc' = pc /\ exc' = exc /\ checkCount' = checkCount + 1
              /\ events' = events \cup {"poll"}
              /\ UNCHANGED <<port, sim>>
  /\ UNCHANGED <<flags, main, simProc, testProc, err, passed, listen, cfgFile,
                 simLogs, testLogs, openSinks>>

\* Lines 186-187: "while port < 0" was entered (port is negative here);
\* open("cosim.cfg", "r") raises FileNotFoundError when the file is missing.
OpenCfg ==
  /\ pc = "read_cfg"
  /\ IF ~cfgExists
       THEN Raise("FileNotFoundError")
       ELSE pc' = "scan_cfg" /\ exc' = exc
  /\ UNCHANGED <<flags, main, locals, simState, cfgFile, simLogs, testLogs,
                 openSinks, events>>

\* Lines 188-195: scan the lines, close the file, test "port < 0" again.
ScanCfg ==
  /\ pc = "scan_cfg"
  /\ port' = ParsePort(cfgLines, port)
  /\ IF port' < 0
       THEN pc' = "read_cfg" /\ UNCHANGED <<checkCount, events>>
       ELSE pc' = "probe" /\ checkCount' = 0
            /\ events' = events \cup {"resolved"}
  /\ UNCHANGED <<flags, main, exc, simProc, testProc, err, passed, simState,
                 cfgFile, simLogs, testLogs, openSinks>>

\* Lines 196-202: one pass of "while not isPortOpen(port)".
Probe ==
  /\ pc = "probe"
  /\ IF isPortOpen(port)
       THEN /\ pc' = "write_script"
            /\ events' = events \cup {"probe", "ready"}
            /\ checkCount' = 0
            /\ UNCHANGED <<exc, sim>>
       ELSE /\ events' = events \cup {"probe"}
            /\ IF checkCount + 1 > PortCheckLimit
                 THEN Raise("PortTimeout") /\ sim' = sim /\ checkCount' = 0
                 ELSE IF Exited
                   THEN Raise("ExitedEarly") /\ sim' = "reaped" /\ checkCount' = 0
                   ELSE /\ pc' = pc /\ exc' = exc /\ sim' = sim
                        /\ checkCount' = checkCount + 1
  /\ UNCHANGED <<flags, main, simProc, testProc, port, err, passed, listen,
                 cfgFile, simLogs, testLogs, openSinks>>

\* Lines 205-208: "if not self.exec: self.writeScript(port)", then the branch
\* on self.server_only.
WriteScript ==
  /\ pc = "write_script"
  /\ events' = IF ~exec THEN events \cup {"script"} ELSE events
  /\ pc' = IF server_only THEN "prompt" ELSE "test"
  /\ UNCHANGED <<flags, main, exc, locals, simState, cfgFile, simLogs, testLogs,
                 openSinks>>

\* Lines 210-212: input(...) returns when the operator answers the prompt.
Prompt ==
  /\ pc = "prompt"
  /\ events' = events \cup {"prompt"}
  /\ pc' = "finally"
  /\ UNCHANGED <<flags, main, exc, locals, simState, cfgFile, simLogs, testLogs,
                 openSinks>>

\* Lines 217-242: build the environment (KeyError when PYTHONPATH is unset),
\* run the test process to its end, close the test log files.
RunTest ==
  /\ pc = "test"
  /\ \E pythonpath \in BOOLEAN :
       IF ~pythonpath
         THEN Raise("KeyError") /\ UNCHANGED <<testProc, testLogs, openSinks, events>>
         ELSE \E r \in RetCodes, wrote \in BOOLEAN :
                /\ testProc' = <<r>>
                /\ testOutLog' = testOutLog
                /\ testErrLog' = IF ~interactive /\ wrote THEN "text" ELSE testErrLog
                /\ openSinks' = IF ~interactive THEN openSinks \ TestSinks ELSE openSinks
                /\ events' = events \cup {"test"}
                /\ pc' = "finally"
                /\ exc' = exc
  /\ UNCHANGED <<flags, main, simProc, checkCount, port, err, passed, simState,
                 cfgFile, simLogs>>

\* Lines 245-246: "if simProc:", os.getpgid(simProc.pid), os.killpg(SIGINT).
\* os.getpgid raises ProcessLookupError for a child poll() has reaped; the
\* exception leaves the finally block.
Finally ==
  /\ pc = "finally"
  /\ IF MustSignal(simProc)
       THEN IF sim = "reaped"
              THEN exc' = "ProcessLookupError" /\ pc' = "raised" /\ events' = events
              ELSE events' = events \cup {"sigint"} /\ pc' = "wait" /\ exc' = exc
       ELSE pc' = "read_logs" /\ UNCHANGED <<exc, events>>
  /\ UNCHANGED <<flags, main, locals, simState, cfgFile, simLogs, testLogs, openSinks>>

\* Lines 249-252: simProc.wait(timeout=1.0); on TimeoutExpired simProc.kill(),
\* which sends SIGKILL and does not wait.
Wait ==
  /\ pc = "wait"
  /\ IF sim = "zombie"
       THEN sim' = "reaped" /\ UNCHANGED <<listen, simErrLog, events>>
       ELSE \E exits \in BOOLEAN, wrote \in BOOLEAN :
              IF exits
                THEN /\ sim' = "reaped" /\ listen' = 0
                     /\ simErrLog' = IF wrote THEN "text" ELSE simErrLog
                     /\ events' = events
                ELSE /\ sim' = "killed"
                     /\ events' = events \cup {"sigkill"}
                     /\ UNCHANGED <<listen, simErrLog>>
  /\ pc' = "read_logs"
  /\ UNCHANGED <<flags, main, exc, locals, cfgFile, simOutLog, testLogs, openSinks>>

\* Lines 254-257 and readLogs(): open the four logs in turn; a missing file
\* raises FileNotFoundError out of the finally block.  "aggregate": readLogs
\* was called; "read": it read all four logs.
ReadLogs ==
  /\ pc = "read_logs"
  /\ IF "absent" \in {simOutLog, simErrLog, testOutLog, testErrLog}
       THEN /\ exc' = "FileNotFoundError" /\ pc' = "raised" /\ err' = err
            /\ events' = events \cup {"aggregate"}
       ELSE /\ err' = FoundErr(simErrLog, testErrLog)
            /\ events' = events \cup {"aggregate", "read"}
            /\ pc' = "verdict"
            /\ exc' = exc
  /\ UNCHANGED <<flags, main, simProc, testProc, checkCount, port, passed, simState,
                 cfgFile, simLogs, testLogs, openSinks>>

\* Lines 258-266: the verdict, the printing of the logs, then the end of the
\* finally block: a pending exception propagates, otherwise run() returns and
\* __main__ returns its value.
Verdict ==
  /\ pc = "verdict"
  /\ passed' = Passed(testProc, err)
  /\ events' = IF ~passed' THEN events \cup {"print"} ELSE events
  /\ IF exc # "None"
       THEN pc' = "raised" /\ result' = result
       ELSE pc' = "exit" /\ result' = <<IF passed' THEN 0 ELSE 1>>
  /\ UNCHANGED <<flags, rc, exc, simProc, testProc, checkCount, port, err, simState,
                 cfgFile, simLogs, testLogs, openSinks>>

\* ------------------------------------------------- the simulation process

\* The simulation creates cosim.cfg (still empty).
SimCreatesCfg ==
  /\ sim = "running"
  /\ ~cfgExists
  /\ cfgExists' = TRUE
  /\ cfgStale' = FALSE
  /\ UNCHANGED <<flags, pc, main, exc, locals, simState, cfgLines, simLogs, testLogs,
                 openSinks, events>>

\* The simulation writes one more line to cosim.cfg.
SimWritesCfg ==
  /\ sim = "running"
  /\ cfgExists
  /\ Len(cfgLines) < MaxCfgLines
  /\ \E l \in Lines : cfgLines' = Append(cfgLines, l)
  /\ UNCHANGED <<flags, pc, main, exc, locals, simState, cfgExists, cfgStale, simLogs,
                 testLogs,
                 openSinks, events>>

\* The simulation starts to accept connections.
SimOpensPort ==
  /\ sim = "running"
  /\ listen = 0
  /\ \E p \in 1..MaxPort : listen' = p
  /\ UNCHANGED <<flags, pc, main, exc, locals, sim, cfgFile, simLogs, testLogs,
                 openSinks, events>>

\* The simulation writes to its stderr, which Popen redirected to sim_stderr.log.
SimWritesStderr ==
  /\ sim = "running"
  /\ simErrLog = "empty"
  /\ simErrLog' = "text"
  /\ UNCHANGED <<flags, pc, main, exc, locals, simState, cfgFile, simOutLog, testLogs,
                 openSinks, events>>

\* The simulation exits of its own accord.
SimExits ==
  /\ sim = "running"
  /\ sim' = "zombie"
  /\ listen' = 0
  /\ UNCHANGED <<flags, pc, main, exc, locals, cfgFile, simLogs, testLogs, openSinks,
                 events>>

\* The SIGKILL of simProc.kill() takes effect.
SimDies ==
  /\ sim = "killed"
  /\ sim' = "zombie"
  /\ listen' = 0
  /\ UNCHANGED <<flags, pc, main, exc, locals, cfgFile, simLogs, testLogs, openSinks,
                 events>>

\* ---------------------------------------------------------- specification
Runner ==
  \/ Compile
  \/ OpenLogs
  \/ EraseCfg
  \/ Launch
  \/ WaitCfg
  \/ OpenCfg
  \/ ScanCfg
  \/ Probe
  \/ WriteScript
  \/ Prompt
  \/ RunTest
  \/ Finally
  \/ Wait
  \/ ReadLogs
  \/ Verdict

Next ==
  \/ Compile
  \/ OpenLogs
  \/ EraseCfg
  \/ Launch
  \/ WaitCfg
  \/ OpenCfg
  \/ ScanCfg
  \/ Probe
  \/ WriteScript
  \/ Prompt
  \/ RunTest
  \/ Finally
  \/ Wait
  \/ ReadLogs
  \/ Verdict
  \/ SimCreatesCfg
  \/ SimWritesCfg
  \/ SimOpensPort
  \/ SimWritesStderr
  \/ SimExits
  \/ SimDies

Spec == Init /\ [][Next]_vars

\* __main__ from its entry up to the constructed runner.
NextMain ==
  \/ PrintHelp
  \/ ParseCmdLine
  \/ MkTestDir
  \/ Construct

SpecMain == InitMain /\ [][NextMain]_vars

\* The control thread is never suspended for ever: a statement that can run
\* does run.  Nothing is assumed of the simulation process.
FairSpec == Spec /\ WF_vars(Runner)

\* ----------------------------------------------------------------- claims
Finished == pc \in {"exit", "raised"}
PollingPcs == {"wait_cfg", "read_cfg", "scan_cfg", "probe"}

\* C1: once an invocation that launched the simulation has completed (run()
\* returned or propagated an exception), the simulation process has
\* terminated.
C1_SimTerminatedOnExit ==
  (Finished /\ "launch" \in events) => sim \in {"zombie", "reaped"}

\* C2: every completed run() has called readLogs after the teardown step, and
\* has printed the logs it aggregated unless the run passed.
C2_AggregationFollowsTeardown ==
  (Finished /\ "run" \in events) =>
     /\ "aggregate" \in events
     /\ ("read" \in events /\ ~passed) => "print" \in events

\* C3: each polling loop of run() ends: whenever the control thread is in the
\* wait for cosim.cfg, the re-reading of cosim.cfg or the wait for the port,
\* it eventually leaves the polling loops, whatever the simulation does.
C3_PollingEnds == [](pc \in PollingPcs => <>(pc \notin PollingPcs))

\* C4: when compile() returned a non-zero code, run() has not been called, no
\* simulation process exists, and __main__ has returned a non-zero result.
C4_CompileFailureShortCircuits ==
  (rc # <<>> /\ rc[1] # 0) =>
     /\ pc = "exit"
     /\ result # <<>> /\ result[1] # 0
     /\ "run" \notin events
     /\ "launch" \notin events
     /\ sim = "none"

\* C4 witness: compilation failed and the entry point has returned.
C4_Witness == pc = "exit" /\ rc # <<>> /\ rc[1] # 0 /\ result = rc

\* C5: once readLogs has read the logs and one of the stderr logs was not
\* empty, the run has not passed: run() never returns 0, and when it returns
\* it returns 1, whatever the exit code of the test process.
C5_StderrFails ==
  ("read" \in events /\ "text" \in {simErrLog, testErrLog}) =>
     /\ ~passed
     /\ result # <<0>>
     /\ pc = "exit" => result = <<1>>

\* C5 witness: the test process exited with 0, only the simulation wrote to
\* stderr, and run() returned 1.
C5_Witness ==
  /\ pc = "exit" /\ "read" \in events
  /\ testProc = <<0>> /\ simErrLog = "text" /\ testErrLog = "empty"
  /\ result = <<1>>

\* C6: a server-only run in which the simulation became ready, the operator
\* answered the prompt and no stderr content was read returns 0.
C6_ServerOnlyPasses ==
  (pc = "exit" /\ server_only /\ {"ready", "prompt", "read"} \subseteq events /\ ~err)
     => result = <<0>>

\* C7: a pass of the readiness loop that finds the port closed and the
\* simulation process exited leaves the loop with "Simulation exited early",
\* for every value of checkCount.
C7_ExitedEarlyReported ==
  [][(pc = "probe" /\ sim = "zombie" /\ ~isPortOpen(port))
       => (pc' = "finally" /\ exc' = "ExitedEarly")]_vars

\* C8: when the simulation exited before cosim.cfg was written, the wait for
\* the file has stopped, the error raised in the try block is the
\* exited-early error, and the completed run has called readLogs.
C8_DiedBeforeCfg ==
  "died_before_cfg" \in events =>
     /\ pc # "wait_cfg"
     /\ pc = "finally" => exc = "ExitedEarly"
     /\ Finished => "aggregate" \in events

\* C9: the phases occur in order: polling only after the launch, a readiness
\* probe only after the port was resolved, the test process or the prompt only
\* after a probe succeeded, and for a launched simulation readLogs and the
\* printing of the logs only after the interrupt signal was sent.
C9_PhaseOrder ==
  /\ "poll" \in events => "launch" \in events
  /\ "probe" \in events => ("resolved" \in events /\ port >= 0)
  /\ ("test" \in events \/ "prompt" \in events) => "ready" \in events
  /\ ("launch" \in events /\ ({"aggregate", "read", "print"} \cap events # {}))
        => "sigint" \in events

\* C9 witness: a run that went through every phase and printed its logs.
C9_Witness ==
  {"launch", "poll", "resolved", "probe", "ready", "test", "sigint",
   "aggregate", "read", "print"} \subseteq events

\* C10: script.py is written only when neither exec nor server_only is set,
\* and a server-only run writes no script and starts no test process.
C10_OneModePerRun ==
  /\ "script" \in events => (~exec /\ ~server_only)
  /\ server_only => ("script" \notin events /\ "test" \notin events)
  /\ ~("prompt" \in events /\ "test" \in events)

\* C11: the value __main__ returns (the exit code of the invocation) is 0 or
\* 1, also after a failed compilation.  An exception that leaves __main__
\* makes the interpreter exit with 1.
C11_ExitCodeZeroOrOne ==
  pc = "exit" => result \in {<<0>>, <<1>>}

\* C12: when readLogs is about to read the logs, the simulation process is
\* not alive and run() holds no log file open.
C12_ReadAfterExitAndClose ==
  pc = "read_logs" => (sim \notin {"running", "killed"} /\ openSinks = {})

\* C13: when readLogs is about to read the logs, all four log files exist
\* and were created or truncated by this run.
C13_LogsWrittenByThisRun ==
  pc = "read_logs" =>
     /\ "absent" \notin {simOutLog, simErrLog, testOutLog, testErrLog}
     /\ {"sim_logs", "test_logs"} \subseteq events

\* C14: run() launches the simulation with no cosim.cfg in the directory,
\* and from the launch on the file, whenever it exists, is one the simulation
\* of this run wrote: the port that is resolved, probed and passed to the
\* test is never read from an earlier run's file.
C14_NoStaleConfig ==
  /\ pc = "launch" => ~cfgExists
  /\ "launch" \in events => ~cfgStale
  /\ pc \in {"scan_cfg", "probe"} \/ "resolved" \in events => ~cfgStale

\* C14 witness: an earlier run's cosim.cfg, with a port line, is in the
\* directory when run() reaches the erase step.
C14_Witness == pc = "erase_cfg" /\ cfgStale /\ cfgLines = <<MaxPort>>

\* The matching lines of a file, and the integer of the last of them.
MatchIdx(lines) == {i \in 1..Len(lines) : lines[i] # NoMatch}
LastMatch(lines) ==
  lines[CHOOSE i \in MatchIdx(lines) : \A j \in MatchIdx(lines) : j <= i]

\* C15: port discovery does not complete on a read of cosim.cfg that holds no
\* line matching "port: <digits>"; when it completes, the resolved port is
\* the integer of the last matching line of the file as read, whatever
\* non-matching lines surround it.
C15_LastMatchingLineWins ==
  [][pc = "scan_cfg" /\ pc' # "scan_cfg" =>
       IF MatchIdx(cfgLines) = {}
         THEN pc' = "read_cfg" /\ port' < 0
         ELSE pc' = "probe" /\ port' = LastMatch(cfgLines)]_vars

\* C15 witness: the port was resolved from a file with two different
\* matching lines, and it is the second one.
C15_Witness ==
  pc = "probe" /\ cfgLines = <<MaxPort, 0>> /\ port = 0

\* C16: each polling loop gives up after 200 failed attempts: once 200
\* attempts of the config wait, or of the readiness probe, have failed, the
\* loop has raised its timeout and makes no further attempt. (checkCount at
\* the head of a loop is the number of attempts that have failed so far.)
C16_CeilingIs200Attempts ==
  /\ pc = "wait_cfg" => checkCount < CfgCheckLimit
  /\ pc = "probe" => checkCount < PortCheckLimit

\* C17: teardown is graceful-then-forced, once per launched process: a
\* completed run that launched the simulation has sent the interrupt signal
\* to its process group; the forced kill is issued only after that interrupt
\* and only on expiry of the grace wait with the process still alive; a run
\* that launched no simulation sends no signal.
C17_TeardownOncePerLaunch ==
  /\ (Finished /\ "launch" \in events) => "sigint" \in events
  /\ "sigkill" \in events =>
        ("sigint" \in events /\ sim \in {"killed", "zombie"} /\ pc # "wait")
  /\ "launch" \notin events => {"sigint", "sigkill"} \cap events = {}

\* C18: when run() returns normally in InlineScript or ExternalExecutable
\* mode, a test process was run and the interrupt was sent to the
\* simulation; the value returned is 0 if the test process exited with 0
\* and both stderr logs are empty, and 1 otherwise, whatever the simulation
\* process did.
C18_VerdictIffCleanTest ==
  (pc = "exit" /\ "run" \in events /\ ~server_only) =>
     /\ testProc # <<>>
     /\ "sigint" \in events
     /\ result = <<IF testProc[1] = 0 /\ simErrLog = "empty" /\ testErrLog = "empty"
                     THEN 0 ELSE 1>>

\* C18 witness: a test-mode run returned 0 after a test process exited with 0.
C18_Witness ==
  pc = "exit" /\ ~server_only /\ testProc = <<0>> /\ result = <<0>>

\* C19: for every command line that names a source file the constructor
\* raises the "DPI library must be enabled" exception: an invocation that
\* reached the constructor ends with that exception, and __main__ never
\* reaches compile() or run(): no compiler is invoked and no simulation
\* process is launched.
C19_ConstructorAlwaysRaises ==
  /\ pc \in {"main", "mkdir", "construct", "exit", "raised"}
  /\ pc = "exit" => Len(argv) <= 1
  /\ (pc = "raised" /\ cwd = "testdir") => (args # <<>> /\ exc = "Exception")
  /\ (args # <<>> /\ pc = "raised") => exc \in {"Exception", "OSError"}
  /\ rc = <<>> /\ {"compile", "run", "launch"} \cap events = {}
  /\ simProc = "None" /\ sim = "none"

\* C19 witness: a command line with options and a source file ended in the
\* constructor's exception.
C19_Witness ==
  /\ pc = "raised" /\ exc = "Exception"
  /\ args # <<>> /\ args[1].source = "src" /\ server_only /\ interactive

====
